---- MODULE Spec2Model ----
(***************************************************************************)
(* Travel-leg reconstruction, weekly aggregation, synthetic cost series    *)
(* and the forecast set-up of src/src/utils.py and src/src/analysis.py.    *)
(*                                                                         *)
(* Dates are day numbers counted from 2024-01-01 (a Monday, day 0).        *)
(* Distances are whole kilometres, money is in hundredths of a dollar.     *)
(* NaN is the string "NaN".                                                *)
(***************************************************************************)
EXTENDS Integers, Sequences, FiniteSets, TLC

VARIABLES
    pc,            \* position in the program
    err,           \* the exception that ended the run, "" if none
    base_city,     \* compute_trip_legs: base_city
    df_games,      \* compute_trip_legs: the schedule as passed in
    df,            \* compute_trip_legs: the schedule sorted by date
    idx,           \* number of rows of df the loop has consumed
    prev_city,     \* compute_trip_legs: cursor
    prev_date,     \* compute_trip_legs: date of the last game seen ("None" before)
    legs,          \* compute_trip_legs: list of legs
    ts_km_weekly,  \* main / basic_cost_model: weekly km series, <<[week, km]>>
    costs,         \* basic_cost_model: list of costs built so far
    cost_series,   \* main: the cost series, <<[week, cost]>>
    weekly_index,  \* main: the regular grid
    km,            \* main: km on the grid
    cost,          \* main: cost on the grid
    split,         \* main: the split index (negative)
    train_cost, test_cost, train_km, test_km,
    horizon,       \* main: forecast horizon
    exog_future    \* main: future exogenous series, <<[week, km]>>

legVars  == <<base_city, df_games, df, idx, prev_city, prev_date, legs>>
costVars == <<ts_km_weekly, costs, cost_series>>
gridVars == <<weekly_index, km, cost>>
fcVars   == <<split, train_cost, test_cost, train_km, test_km, horizon, exog_future>>
vars     == <<pc, err, legVars, costVars, gridVars, fcVars>>

----------------------------------------------------------------------------
(* Bounds *)

MaxGames == 3        \* rows of the schedule handed to compute_trip_legs
MaxMainGames == 2    \* rows of schedule.csv in a run of main
MaxWeeks == 2        \* entries of the km series handed to basic_cost_model alone

----------------------------------------------------------------------------
(* Inputs *)

\* cities.csv as rows in file order; lat/lon in hundredths of a degree.
cities_df ==
    << [city |-> "Dallas", lat |-> 3278, lon |-> -9680],
       [city |-> "Denver", lat |-> 3974, lon |-> -10499],
       [city |-> "Boston", lat |-> 4236, lon |-> -7106],
       [city |-> "Miami",  lat |-> 2576, lon |-> -8019] >>

\* City names a schedule or a base city may carry; "Atlantis" has no row.
CityNames == {"Dallas", "Denver", "Boston", "Miami", "Atlantis"}

\* Game dates offered to compute_trip_legs: two in one week, one in the next.
LegDates == {2, 5, 9}

BASE_CITY == "Dallas"

----------------------------------------------------------------------------
(* utils.py *)

\* Great-circle km of the formula, rounded to whole km, for the coordinate
\* pairs of cities_df (the table is symmetric, zero on the diagonal).
haversine(lat1, lon1, lat2, lon2) ==
    LET p == <<lat1, lon1>>
        q == <<lat2, lon2>>
        DAL == <<3278, -9680>>
        DEN == <<3974, -10499>>
        BOS == <<4236, -7106>>
        MIA == <<2576, -8019>>
    IN  IF p = q THEN 0
        ELSE IF {p, q} = {DAL, DEN} THEN 1066
        ELSE IF {p, q} = {DAL, BOS} THEN 2493
        ELSE IF {p, q} = {DAL, MIA} THEN 1787
        ELSE IF {p, q} = {DEN, BOS} THEN 2841
        ELSE IF {p, q} = {DEN, MIA} THEN 2777
        ELSE 2025

\* cities_df[cities_df["city"] == name]: the matching rows, in file order.
RowsOf(name) == SelectSeq(cities_df, LAMBDA r : r.city = name)

\* .iloc[0] on the selection raises IndexError when it is empty.
HasRow(name) == Len(RowsOf(name)) > 0

Iloc0(name) == RowsOf(name)[1]

\* km of the leg from one city to another (both present in the table).
LegKm(from, to) ==
    haversine(Iloc0(from).lat, Iloc0(from).lon, Iloc0(to).lat, Iloc0(to).lon)

SortValuesByDate_Unsorted(rows) == {rows}

\* sort_values("date"): the rows in ascending date order.  The default sort
\* kind is not stable, so rows of equal date may come out in any order.
SortValuesByDate(rows) ==
    { [k \in 1..Len(rows) |-> rows[p[k]]] :
        p \in { q \in Permutations(1..Len(rows)) :
                  \A a, b \in 1..Len(rows) :
                      a < b => rows[q[a]].date <= rows[q[b]].date } }

\* Line 46: a leg is due when the venue differs from the cursor.
CityChanged_Always(to_city, cursor) == TRUE

CityChanged_Never(to_city, cursor) == FALSE

CityChanged(to_city, cursor) == to_city # cursor

\* Line 61: the leg home is due when the cursor is not the base city.
AwayFromBase_Always(cursor, base) == TRUE

AwayFromBase_Never(cursor, base) == FALSE

AwayFromBase(cursor, base) == cursor # base

\* Lines 36-42: sort, reset the index, initialise legs and the cursor.
SortGames ==
    /\ pc = "sort"
    /\ df' \in SortValuesByDate(df_games)
    /\ idx' = 0
    /\ legs' = << >>
    /\ prev_city' = base_city
    /\ prev_date' = "None"
    /\ pc' = "loop"
    /\ UNCHANGED <<err, base_city, df_games, costVars, gridVars, fcVars>>

\* Lines 44-58: one iteration of the loop over the rows of df.
GameStep ==
    /\ pc = "loop"
    /\ idx < Len(df)
    /\ LET row == df[idx + 1]
           to_city == row.venue_city
       IN  IF CityChanged(to_city, prev_city)
              /\ ~(HasRow(prev_city) /\ HasRow(to_city))
           THEN /\ pc' = "raised"
                /\ err' = "IndexError"
                /\ UNCHANGED <<idx, legs, prev_city, prev_date>>
           ELSE /\ legs' = IF CityChanged(to_city, prev_city)
                           THEN Append(legs, [date |-> row.date,
                                              from_city |-> prev_city,
                                              to_city |-> to_city,
                                              km |-> LegKm(prev_city, to_city)])
                           ELSE legs
                /\ prev_city' = to_city
                /\ prev_date' = row.date
                /\ idx' = idx + 1
                /\ UNCHANGED <<pc, err>>
    /\ UNCHANGED <<base_city, df_games, df, costVars, gridVars, fcVars>>

\* Lines 60-72: after the last row, the leg home; return the leg table.
TravelHome ==
    /\ pc = "loop"
    /\ idx = Len(df)
    /\ IF AwayFromBase(prev_city, base_city)
          /\ ~(HasRow(prev_city) /\ HasRow(base_city))
       THEN /\ pc' = "raised"
            /\ err' = "IndexError"
            /\ UNCHANGED legs
       ELSE /\ legs' = IF AwayFromBase(prev_city, base_city)
                       THEN Append(legs, [date |-> prev_date,
                                          from_city |-> prev_city,
                                          to_city |-> base_city,
                                          km |-> LegKm(prev_city, base_city)])
                       ELSE legs
            /\ pc' = "returned"
            /\ UNCHANGED err
    /\ UNCHANGED <<base_city, df_games, df, idx, prev_city, prev_date,
                   costVars, gridVars, fcVars>>

\* Line 85: dt.month, for a day number of 2024.
Month(d) ==
    LET first == <<0, 31, 60, 91, 121, 152, 182, 213, 244, 274, 305, 335, 366>>
    IN  CHOOSE m \in 1..12 : first[m] <= d /\ d < first[m + 1]

\* Line 87: 40.0 + 10.0*sin(2*pi*(month-1)/12) + 8.0*cos(2*pi*(month-3)/12),
\* in hundredths, rounded.
Seasonal(month) ==
    <<4400, 5193, 5666, 5693, 5266, 4500, 3600, 2807, 2334, 2307, 2734, 3500>>[month]

\* Values rng.normal(0, 25.0) may draw, in hundredths.
NoiseDraws == {-10000, 0, 2500}

Floor50_None(c) == c

\* Line 90: max(50.0, cost).
Floor50(c) == IF c > 5000 THEN c ELSE 5000

\* Lines 84-90: one iteration of the loop over (dt, km).
CostStep ==
    /\ pc = "cost_loop"
    /\ Len(costs) < Len(ts_km_weekly)
    /\ \E noise \in NoiseDraws :
          LET p == ts_km_weekly[Len(costs) + 1]
              c == 12 * p.km + Seasonal(Month(p.week)) + noise
          IN  costs' = Append(costs, Floor50(c))
    /\ UNCHANGED <<pc, err, legVars, ts_km_weekly, cost_series, gridVars, fcVars>>

\* Line 91: pd.Series(costs, index=dates).
CostReturn ==
    /\ pc = "cost_loop"
    /\ Len(costs) = Len(ts_km_weekly)
    /\ cost_series' = [k \in 1..Len(costs) |->
                          [week |-> ts_km_weekly[k].week, cost |-> costs[k]]]
    /\ pc' = "cost_done"
    /\ UNCHANGED <<err, legVars, ts_km_weekly, costs, gridVars, fcVars>>

----------------------------------------------------------------------------
(* compute_trip_legs called on any schedule, with any base city *)

Games(dates, names, n) ==
    UNION { [1..k -> [date : dates, venue_city : names]] : k \in 0..n }

Blank ==
    /\ err = ""
    /\ df = << >> /\ idx = 0 /\ prev_city = "" /\ prev_date = "None"
    /\ legs = << >>
    /\ costs = << >> /\ cost_series = << >>
    /\ weekly_index = << >> /\ km = << >> /\ cost = << >>
    /\ split = 0
    /\ train_cost = << >> /\ test_cost = << >>
    /\ train_km = << >> /\ test_km = << >>
    /\ horizon = 0 /\ exog_future = << >>

Init ==
    /\ pc = "sort"
    /\ base_city \in CityNames
    /\ df_games \in Games(LegDates, CityNames, MaxGames)
    /\ ts_km_weekly = << >>
    /\ Blank

Next == SortGames \/ GameStep \/ TravelHome

Spec == Init /\ [][Next]_vars

----------------------------------------------------------------------------
(* basic_cost_model called on any weekly km series *)

\* Week-starts (Mondays) offered as index, one in each month of 2024.
CostWeeks == {0, 35, 63, 91, 126, 154, 182, 217, 245, 280, 308, 336}

CostKm == {0, 150, 4000}

InitCost ==
    /\ pc = "cost_loop"
    /\ base_city = BASE_CITY
    /\ df_games = << >>
    /\ ts_km_weekly \in
          UNION { [1..k -> [week : CostWeeks, km : CostKm]] : k \in 0..MaxWeeks }
    /\ Blank

NextCost == CostStep \/ CostReturn

SpecCost == InitCost /\ [][NextCost]_vars

----------------------------------------------------------------------------
(* analysis.py: main *)

\* Dates of schedule.csv: weeks 0, 0, 1, 2, 12 and 13 of 2024.
MainDates == {2, 5, 9, 16, 88, 93}

MainCities == {"Dallas", "Denver", "Boston"}

RECURSIVE SumKm(_)
SumKm(rows) == IF rows = << >> THEN 0 ELSE rows[1].km + SumKm(Tail(rows))

RECURSIVE SortIndex(_)
\* sort_index(): the keys in ascending order.
SortIndex(S) ==
    IF S = {} THEN << >>
    ELSE LET m == CHOOSE x \in S : \A y \in S : x <= y
         IN  <<m>> \o SortIndex(S \ {m})

\* Line 36: dt.to_period("W") is the Monday..Sunday week holding the date;
\* start_time is its Monday.
WeekStart(d) == d - (d % 7)

GroupKm_First(rows) == rows[1].km

\* Line 37: ["km"].sum() of one group.
GroupKm(rows) == SumKm(rows)

\* Line 37: groupby("week")["km"].sum().sort_index().
GroupByWeek(rows) ==
    LET weeks == SortIndex({rows[k].week : k \in 1..Len(rows)})
    IN  [i \in 1..Len(weeks) |->
            [week |-> weeks[i],
             km |-> GroupKm(SelectSeq(rows, LAMBDA r : r.week = weeks[i]))]]

\* Lines 36-38: the week column and the weekly km series.  A leg table with
\* no rows has no columns, and legs["date"] raises KeyError.
Weekly ==
    /\ pc = "returned"
    /\ IF legs = << >>
       THEN /\ pc' = "raised"
            /\ err' = "KeyError"
            /\ UNCHANGED <<legs, ts_km_weekly, costs>>
       ELSE /\ legs' = [k \in 1..Len(legs) |->
                           [date |-> legs[k].date,
                            from_city |-> legs[k].from_city,
                            to_city |-> legs[k].to_city,
                            km |-> legs[k].km,
                            week |-> WeekStart(legs[k].date)]]
            /\ ts_km_weekly' = GroupByWeek(legs')
            /\ costs' = << >>
            /\ pc' = "cost_loop"
            /\ UNCHANGED err
    /\ UNCHANGED <<base_city, df_games, df, idx, prev_city, prev_date,
                   cost_series, gridVars, fcVars>>

\* The first day on or after d that is a Sunday: freq="W" is anchored on
\* Sunday, and a date_range starts at the first anchored day from its start.
RollToSunday(d) == d + ((6 - (d % 7)) % 7)

\* pd.date_range(start, end, freq="W").
DateRangeW(start, end) ==
    LET first == RollToSunday(start)
        n == IF first > end THEN 0 ELSE ((end - first) \div 7) + 1
    IN  [j \in 1..n |-> first + 7 * (j - 1)]

\* pd.date_range(start, periods=periods, freq="W").
DateRangePeriods(start, periods) ==
    [j \in 1..periods |-> RollToSunday(start) + 7 * (j - 1)]

\* series.reindex(index): the value at each label of index, NaN where the
\* series has no such label.
Reindex(series, field, index) ==
    [j \in 1..Len(index) |->
        IF \E k \in 1..Len(series) : series[k].week = index[j]
        THEN series[CHOOSE k \in 1..Len(series) : series[k].week = index[j]][field]
        ELSE "NaN"]

\* .fillna(0.0)
FillNa0(vals) == [j \in 1..Len(vals) |-> IF vals[j] = "NaN" THEN 0 ELSE vals[j]]

\* .interpolate(): linear between the neighbouring known values, the last
\* known value after the last one, NaN before the first.
Interpolate(vals) ==
    LET Known(j) == vals[j] # "NaN"
        PrevK(j) == {a \in 1..(j - 1) : Known(a)}
        NextK(j) == {b \in (j + 1)..Len(vals) : Known(b)}
        MaxOf(S) == CHOOSE x \in S : \A y \in S : y <= x
        MinOf(S) == CHOOSE x \in S : \A y \in S : x <= y
    IN  [j \in 1..Len(vals) |->
            IF Known(j) THEN vals[j]
            ELSE IF PrevK(j) = {} THEN "NaN"
            ELSE IF NextK(j) = {} THEN vals[MaxOf(PrevK(j))]
            ELSE LET a == MaxOf(PrevK(j))
                     b == MinOf(NextK(j))
                 IN  vals[a] + ((vals[b] - vals[a]) * (j - a)) \div (b - a)]

\* A series on an index: <<[week, field]>>.
OnIndex(index, vals, field) ==
    [j \in 1..Len(index) |->
        IF field = "km" THEN [week |-> index[j], km |-> vals[j]]
        ELSE [week |-> index[j], cost |-> vals[j]]]

\* Lines 46-48: the regular grid and the two series on it.
Align ==
    /\ pc = "cost_done"
    /\ weekly_index' = DateRangeW(ts_km_weekly[1].week,
                                  ts_km_weekly[Len(ts_km_weekly)].week)
    /\ km' = OnIndex(weekly_index',
                     FillNa0(Reindex(ts_km_weekly, "km", weekly_index')), "km")
    /\ cost' = OnIndex(weekly_index',
                       Interpolate(Reindex(cost_series, "cost", weekly_index')),
                       "cost")
    /\ pc' = "aligned"
    /\ UNCHANGED <<err, legVars, costVars, fcVars>>

SplitIndex_Always8(n) == -8

\* Line 51: -8 if len(weekly_index) > 10 else -2.
SplitIndex(n) == IF n > 10 THEN -8 ELSE -2

\* s.iloc[:k] for a negative k.
IlocUpTo(s, k) ==
    SubSeq(s, 1, IF Len(s) + k > 0 THEN Len(s) + k ELSE 0)

\* s.iloc[k:] for a negative k.
IlocFrom(s, k) ==
    SubSeq(s, (IF Len(s) + k > 0 THEN Len(s) + k ELSE 0) + 1, Len(s))

\* Lines 51-53: the train/test split.
Split ==
    /\ pc = "aligned"
    /\ split' = SplitIndex(Len(weekly_index))
    /\ train_cost' = IlocUpTo(cost, split')
    /\ test_cost' = IlocFrom(cost, split')
    /\ train_km' = IlocUpTo(km, split')
    /\ test_km' = IlocFrom(km, split')
    /\ pc' = "split"
    /\ UNCHANGED <<err, legVars, costVars, gridVars, horizon, exog_future>>

\* Lines 56-58: SARIMAX(...).fit(); the library either returns a result or
\* raises.
Fit ==
    /\ pc = "split"
    /\ \E ok \in BOOLEAN :
          IF ok THEN pc' = "fitted" /\ UNCHANGED err
          ELSE pc' = "raised" /\ err' = "FitError"
    /\ UNCHANGED <<legVars, costVars, gridVars, fcVars>>

FutureIndex_FromLast(last) == DateRangePeriods(last, 12)

\* Line 62: date_range(test_km.index[-1] + Timedelta(weeks=1), periods=12, freq="W").
FutureIndex(last) == DateRangePeriods(last + 7, 12)

\* Lines 61-63: the horizon and the future exogenous series.  index[-1] of an
\* empty test window raises IndexError.
Forecast ==
    /\ pc = "fitted"
    /\ horizon' = Len(test_cost) + 12
    /\ IF test_km = << >>
       THEN /\ pc' = "raised"
            /\ err' = "IndexError"
            /\ UNCHANGED exog_future
       ELSE /\ exog_future' =
                  test_km \o OnIndex(FutureIndex(test_km[Len(test_km)].week),
                                     [j \in 1..12 |-> 0], "km")
            /\ pc' = "forecast"
            /\ UNCHANGED err
    /\ UNCHANGED <<legVars, costVars, gridVars,
                   split, train_cost, test_cost, train_km, test_km>>

InitMain ==
    /\ pc = "sort"
    /\ base_city = BASE_CITY
    /\ df_games \in Games(MainDates, MainCities, MaxMainGames)
    /\ ts_km_weekly = << >>
    /\ Blank

NextMain ==
    \/ SortGames \/ GameStep \/ TravelHome
    \/ Weekly \/ CostStep \/ CostReturn
    \/ Align \/ Split \/ Fit \/ Forecast

SpecMain == InitMain /\ [][NextMain]_vars

----------------------------------------------------------------------------
(* Properties of compute_trip_legs *)

\* The cursor before game j of the sorted schedule.
CursorBefore(j) == IF j = 1 THEN base_city ELSE df[j - 1].venue_city

\* The games, among the first n, played away from the cursor.
Changes(n) == {j \in 1..n : df[j].venue_city # CursorBefore(j)}

\* The city of the last game, the base city when there is none.
LastVenue == IF Len(df) = 0 THEN base_city ELSE df[Len(df)].venue_city

AbsentVenue == \E i \in 1..Len(df_games) : ~HasRow(df_games[i].venue_city)

AllAtBase == \A i \in 1..Len(df_games) : df_games[i].venue_city = base_city

\* C1: after idx games, the legs of the loop are exactly the games whose
\* venue differs from the cursor, in order, each with date = the game's
\* date, from = the cursor, to = the venue; a game at the cursor's city
\* yields no leg.
C1_LegIffCityChange ==
    pc \in {"loop", "returned"} =>
        LET ch == Changes(idx)
            Rank(j) == Cardinality({k \in ch : k <= j})
        IN  /\ Len(legs) >= Cardinality(ch)
            /\ pc = "loop" => Len(legs) = Cardinality(ch)
            /\ \A j \in ch :
                   /\ legs[Rank(j)].date = df[j].date
                   /\ legs[Rank(j)].from_city = CursorBefore(j)
                   /\ legs[Rank(j)].to_city = df[j].venue_city

C1_Witness ==
    /\ pc = "returned"
    /\ Len(df) = 3
    /\ df[1].venue_city # base_city
    /\ df[2].venue_city = df[1].venue_city
    /\ df[3].venue_city # df[2].venue_city
    /\ Len(legs) >= 2

\* C2: on return, the legs of the loop are followed by exactly one closing
\* leg (last venue -> base city, dated at the last game's date) if and only
\* if the last venue differs from the base city; no games, no legs.
C2_ClosingLeg ==
    pc = "returned" =>
        LET g == Cardinality(Changes(Len(df)))
        IN  /\ Len(df) = 0 => legs = << >>
            /\ LastVenue = base_city => Len(legs) = g
            /\ LastVenue # base_city =>
                   /\ Len(legs) = g + 1
                   /\ legs[g + 1].date = df[Len(df)].date
                   /\ legs[g + 1].from_city = LastVenue
                   /\ legs[g + 1].to_city = base_city

C2_Witness ==
    /\ pc = "returned"
    /\ Len(df) >= 2
    /\ LastVenue # base_city
    /\ df[1].date < df[Len(df)].date
    /\ legs[Len(legs)].to_city = base_city

\* The games are at pairwise distinct cities, none of them the base city,
\* and every city has a row in the table.
DistinctAwayGames ==
    /\ HasRow(base_city)
    /\ \A i \in 1..Len(df) :
           /\ HasRow(df[i].venue_city)
           /\ df[i].venue_city # base_city
           /\ \A j \in 1..Len(df) : j # i => df[j].venue_city # df[i].venue_city

\* C3: for pairwise distinct away games the number of legs returned is the
\* number of games plus one when the final venue differs from the base city,
\* and the number of games otherwise.
C3_LegCount ==
    (pc = "returned" /\ DistinctAwayGames) =>
        Len(legs) = Len(df) + (IF LastVenue # base_city THEN 1 ELSE 0)

C3_Witness ==
    pc = "returned" /\ DistinctAwayGames /\ Len(df) = 3 /\ Len(legs) = 4

\* C6 as stated: a schedule with a venue that has no row in the table never
\* makes compute_trip_legs return.
C6_AbsentVenueNeverReturns == AbsentVenue => pc # "returned"

\* C6 amended: a schedule with a venue that has no row in the table never
\* makes compute_trip_legs return, unless every game is at the base city;
\* then the call returns and the leg table is empty.
C6_AbsentVenueRaisesUnlessAllAtBase ==
    AbsentVenue =>
        /\ ~AllAtBase => pc # "returned"
        /\ pc = "returned" => legs = << >>

C6_Witness ==
    /\ AbsentVenue /\ ~AllAtBase
    /\ pc = "raised" /\ err = "IndexError"
    /\ idx >= 1 /\ Len(legs) >= 1

\* C10: the legs returned form a closed tour: the first leg leaves the base
\* city, the last leg arrives there, each leg leaves from where the previous
\* one arrived, no leg stays in its city, and dates never decrease.
C10_ClosedTour ==
    pc = "returned" =>
        /\ legs # << >> =>
               /\ legs[1].from_city = base_city
               /\ legs[Len(legs)].to_city = base_city
        /\ \A k \in 1..Len(legs) : legs[k].from_city # legs[k].to_city
        /\ \A k \in 2..Len(legs) :
               /\ legs[k].from_city = legs[k - 1].to_city
               /\ legs[k - 1].date <= legs[k].date

C10_Witness ==
    /\ pc = "returned"
    /\ Len(legs) = 4
    /\ legs[1].date < legs[4].date
    /\ \E i \in 1..Len(df_games) : df_games[i] # df[i]

----------------------------------------------------------------------------
(* Properties of main *)

HasWeekly == pc \in {"cost_loop", "cost_done", "aligned", "split", "fitted", "forecast"}

HasGrid == pc \in {"aligned", "split", "fitted", "forecast"}

HasSplit == pc \in {"split", "fitted", "forecast"}

\* C4: the grid holds one point for every week-start from the first to the
\* last week of the weekly km series, the km on the grid is the weekly sum at
\* every week that has legs and 0 elsewhere, so every week of the km series
\* is a grid point and the km on the grid adds up to the km of all legs.
C4_GridCoversEveryWeek ==
    HasGrid =>
        LET lo == ts_km_weekly[1].week
            hi == ts_km_weekly[Len(ts_km_weekly)].week
        IN  /\ weekly_index = [j \in 1..(((hi - lo) \div 7) + 1) |-> lo + 7 * (j - 1)]
            /\ \A k \in 1..Len(ts_km_weekly) :
                  \E j \in 1..Len(km) :
                      km[j].week = ts_km_weekly[k].week /\ km[j].km = ts_km_weekly[k].km
            /\ \A j \in 1..Len(km) :
                  (\A k \in 1..Len(ts_km_weekly) : ts_km_weekly[k].week # km[j].week)
                      => km[j].km = 0
            /\ SumKm(km) = SumKm(legs)

\* C5: every leg lies in exactly one bucket, the Monday-start week that holds
\* its date; the weekly km series has one entry for every week with a leg,
\* in ascending order of week-start; and its km add up to the km of all legs.
C5_WeeklyConservation ==
    HasWeekly =>
        /\ \A k \in 1..Len(legs) :
              /\ legs[k].week % 7 = 0
              /\ legs[k].week <= legs[k].date
              /\ legs[k].date <= legs[k].week + 6
        /\ {ts_km_weekly[i].week : i \in 1..Len(ts_km_weekly)}
              = {legs[k].week : k \in 1..Len(legs)}
        /\ \A i \in 2..Len(ts_km_weekly) :
              ts_km_weekly[i - 1].week < ts_km_weekly[i].week
        /\ SumKm(ts_km_weekly) = SumKm(legs)

C5_Witness ==
    /\ HasWeekly
    /\ Len(legs) = 3
    /\ Len(ts_km_weekly) = 2
    /\ legs[1].week < legs[2].week
    /\ legs[2].week = legs[3].week
    /\ legs[1].date # legs[1].week

\* The K of the split: 8 for a grid of more than 10 points, else 2.
SplitK == IF Len(weekly_index) > 10 THEN 8 ELSE 2

\* C7 as stated: the test set is the last K grid points and the train set the
\* first n - K, for the cost series and the km series alike.
C7_TestIsLastK ==
    HasSplit =>
        /\ Len(test_km) = SplitK /\ Len(test_cost) = SplitK
        /\ Len(train_km) = Len(weekly_index) - SplitK
        /\ Len(train_cost) = Len(weekly_index) - SplitK
        /\ train_km \o test_km = km
        /\ train_cost \o test_cost = cost

\* C7 amended: K is 8 for a grid of more than 10 points and 2 otherwise; the
\* test set is the last min(K, n) grid points and the train set the points
\* before them, so train followed by test is the whole grid in order; the
\* cost series and the km series are cut at the same place.
C7_TestIsLastMinKN ==
    HasSplit =>
        LET n == Len(weekly_index)
            t == IF SplitK < n THEN SplitK ELSE n
        IN  /\ split = -SplitK
            /\ Len(test_km) = t /\ Len(test_cost) = t
            /\ Len(train_km) = n - t /\ Len(train_cost) = n - t
            /\ train_km \o test_km = km
            /\ train_cost \o test_cost = cost
            /\ \A j \in 1..n : km[j].week = weekly_index[j] /\ cost[j].week = weekly_index[j]
            /\ \A j \in 2..n : weekly_index[j - 1] < weekly_index[j]

C7_Witness ==
    /\ HasSplit
    /\ Len(weekly_index) > 10
    /\ Len(test_km) = 8
    /\ Len(train_cost) >= 3

\* C8: the horizon is the number of test points plus 12, and the future
\* exogenous series has that many entries: the km of the test window in
\* order, then 12 entries of 0 at 7-day steps starting one week after the
\* last test point.
C8_HorizonAndFutureKm ==
    pc = "forecast" =>
        LET t == Len(test_km)
        IN  /\ horizon = Len(test_cost) + 12
            /\ t = Len(test_cost)
            /\ Len(exog_future) = horizon
            /\ SubSeq(exog_future, 1, t) = test_km
            /\ \A j \in 1..12 :
                  /\ exog_future[t + j].km = 0
                  /\ exog_future[t + j].week = test_km[t].week + 7 * j

C8_Witness ==
    /\ pc = "forecast"
    /\ Len(test_km) = 8
    /\ horizon = 20

----------------------------------------------------------------------------
(* Properties of basic_cost_model *)

\* C9: every cost is at least 50.00, and the series returned has one cost
\* for every entry of the km series, on the same dates.
C9_CostFloor ==
    /\ \A k \in 1..Len(costs) : costs[k] >= 5000
    /\ pc = "cost_done" =>
          /\ Len(cost_series) = Len(ts_km_weekly)
          /\ \A k \in 1..Len(cost_series) :
                /\ cost_series[k].week = ts_km_weekly[k].week
                /\ cost_series[k].cost >= 5000

C9_Witness ==
    /\ pc = "cost_done"
    /\ Len(cost_series) = 2
    /\ ts_km_weekly[1].km = 0
    /\ cost_series[1].cost = 5000
    /\ cost_series[2].cost > 5000

====
